---------------------------- MODULE Spec2Model ----------------------------
(***************************************************************************)
(* Model of tools/ibv_code_generator/generate-code.py (libhermit).         *)
(*                                                                         *)
(* Representation of Python strings.  A str is modelled as a Text: a       *)
(* sequence of lexemes, each lexeme a TLA+ string.  In every text that is  *)
(* parsed, each of the characters the parser splits on (space, comma, the  *)
(* two parentheses, newline) is a lexeme of its own, and every other       *)
(* lexeme is a maximal run that contains none of them.  str.split, "+",    *)
(* str.join, str.format and str.upper then act on the lexeme sequence      *)
(* exactly as they act on the characters.  Str(t) is the Python string     *)
(* itself (the concatenation of the lexemes).                              *)
(*                                                                         *)
(* Generated code is kept as the sequence of chunks appended by the        *)
(* successive `code += ...` statements, each chunk a Text.                 *)
(***************************************************************************)
EXTENDS Integers, Sequences, FiniteSets, TLC

VARIABLES
  pc,          \* position of the running script / of the function pipeline
  src,         \* the lines of SRC_PATH, as iteration over the file yields them
  pos,         \* index of the next line `for line in f` will yield
  prototypes,  \* the list `prototypes`
  out,         \* path -> sequence of strings written to it by f.write
  classified,  \* results of the Type accessors on ret and every parameter
  canon,       \* result of get_string_of_parameters()
  reparsed,    \* the parameters parsed again from canon
  gen          \* results of the three per-prototype emitters

vars == <<pc, src, pos, prototypes, out, classified, canon, reparsed, gen>>

---------------------------------------------------------------------------
(* Bounds of the model *)

MaxParams == 3
MaxLines == 3

---------------------------------------------------------------------------
(* Python built-ins on Text *)

Last(s) == s[Len(s)]

Front(s) == SubSeq(s, 1, Len(s) - 1)

RECURSIVE Str(_)
Str(t) == IF t = <<>> THEN "" ELSE Head(t) \o Str(Tail(t))

RECURSIVE Split(_, _)
Split(s, sep) ==
  IF \A i \in 1..Len(s) : s[i] # sep
    THEN <<s>>
    ELSE LET i == CHOOSE k \in 1..Len(s) :
                    s[k] = sep /\ \A j \in 1..(k - 1) : s[j] # sep
         IN  <<SubSeq(s, 1, i - 1)>> \o Split(SubSeq(s, i + 1, Len(s)), sep)

RECURSIVE Join(_, _)
Join(sep, parts) ==
  IF parts = <<>> THEN <<>>
  ELSE IF Len(parts) = 1 THEN parts[1]
  ELSE parts[1] \o sep \o Join(sep, Tail(parts))

RECURSIVE Concat(_)
Concat(ss) == IF ss = <<>> THEN <<>> ELSE Head(ss) \o Concat(Tail(ss))

UpperWord(w) ==
  CASE w = "f1" -> "F1"
    [] w = "f2" -> "F2"
    [] w = "f3" -> "F3"
    [] w = "ibv_rereg_mr" -> "IBV_REREG_MR"
    [] w = "ibv_ack_async_event" -> "IBV_ACK_ASYNC_EVENT"
    [] w = "ibv_open_device" -> "IBV_OPEN_DEVICE"
    [] OTHER -> w

Upper(t) == [i \in 1..Len(t) |-> UpperWord(t[i])]

HexDigits == <<"0", "1", "2", "3", "4", "5", "6", "7",
               "8", "9", "A", "B", "C", "D", "E", "F">>

RECURSIVE FormatX(_)
FormatX(n) ==
  IF n < 16 THEN <<HexDigits[n + 1]>>
  ELSE FormatX(n \div 16) \o <<HexDigits[(n % 16) + 1]>>

Enumerate(s, start) == [i \in 1..Len(s) |-> <<start + i - 1, s[i]>>]

Truthy(s) == s # <<>>

Raise(exc) == [kind |-> "raise", exc |-> exc]

Return(v) == [kind |-> "return", value |-> v]

---------------------------------------------------------------------------
(* Module-level names and constants *)

PORT_NUMBER_START == 1552

UHYVE_CASES_GEN_PATH == "GEN-tools-uhyve.c"
INCLUDE_STDDEF_GEN_PATH == "GEN-include-hermit-stddef.h"
UHYVE_IBV_HEADER_GEN_PATH == "GEN-tools-uhyve-ibv-ports.h"
UHYVE_HOST_FCNS_GEN_PATH == "GEN-tools-uhyve-ibv.c"
KERNEL_HEADER_GEN_PATH == "GEN-kernel-header.h"
KERNEL_GEN_PATH == "GEN-kernel.c"

Paths == {UHYVE_CASES_GEN_PATH, INCLUDE_STDDEF_GEN_PATH,
          UHYVE_IBV_HEADER_GEN_PATH, UHYVE_HOST_FCNS_GEN_PATH,
          KERNEL_HEADER_GEN_PATH, KERNEL_GEN_PATH}

Globals == {"generate_struct_conversions", "SRC_PATH", "KERNEL_GEN_PATH",
            "KERNEL_HEADER_GEN_PATH", "UHYVE_CASES_GEN_PATH",
            "UHYVE_IBV_HEADER_GEN_PATH", "INCLUDE_STDDEF_GEN_PATH",
            "UHYVE_HOST_FCNS_GEN_PATH", "PORT_NUMBER_START", "TABS",
            "NEWLINES", "Type", "FunctionParameter", "FunctionPrototype",
            "generate_pretty_comment", "generate_kernel_header_declarations",
            "generate_kernel_function", "generate_uhyve_cases",
            "generate_uhyve_function", "generate_port_enum",
            "generate_port_macros"}

---------------------------------------------------------------------------
(* class Type *)

Type(string) ==
  [type_string |-> string, type_components |-> Split(string, " ")]

is_struct(t) == t.type_components[1] = <<"struct">>

get_struct_name(t) ==
  IF "is_struct" \notin Globals
    THEN Raise("NameError")
    ELSE Return(IF is_struct(t) THEN t.type_components[2] ELSE <<>>)

is_pointer(t) == Last(t.type_components) = <<"*">>

is_char_arr(t) ==
  is_pointer(t) /\ \E i \in 1..Len(t.type_components) : t.type_components[i] = <<"char">>

is_pointer_pointer(t) == Last(t.type_components) = <<"**">>

is_void(t) == t.type_string = <<"void">>

---------------------------------------------------------------------------
(* class FunctionParameter *)

\* FunctionParameter taking the first token as the name.
FunctionParameter_firstname(string) ==
  LET components == Split(string, " ")
      type_string == Join(<<" ">>, Tail(components))
  IN  [type |-> Type(type_string), name |-> Head(components)]

FunctionParameter(string) ==
  LET components == Split(string, " ")
      type_string == Join(<<" ">>, Front(components))
  IN  [type |-> Type(type_string), name |-> Last(components)]

get_full_expression(p) == p.type.type_string \o <<" ">> \o p.name

param_get_struct_name(p) == get_struct_name(p.type)

param_is_struct(p) == is_struct(p.type)

param_is_pointer(p) == is_pointer(p.type)

\* is_pointer_pointer delegating to the wrong accessor.
param_is_pointer_pointer_single(p) == is_pointer(p.type)

param_is_pointer_pointer(p) == is_pointer_pointer(p.type)

---------------------------------------------------------------------------
(* class FunctionPrototype *)

FunctionPrototype(string) ==
  LET parens_split == Split(string, "(")
      ret_and_name == Split(parens_split[1], " ")
      all_params == Split(Last(parens_split), ")")[1]
      param_strings == Split(all_params, ",")
  IN  [parameters |-> [i \in 1..Len(param_strings) |->
                         FunctionParameter(param_strings[i])],
       ret |-> Type(Join(<<" ">>, Front(ret_and_name))),
       function_name |-> Last(ret_and_name)]

get_args_struct_name(pt) == <<"uhyve_">> \o pt.function_name \o <<"_t">>

get_port_name(pt) == <<"UHYVE_PORT_">> \o Upper(pt.function_name)

get_uhyve_call_function_name(pt) == <<"call_">> \o pt.function_name

get_num_parameters(pt) == Len(pt.parameters)

get_parameter_types(pt) ==
  [i \in 1..Len(pt.parameters) |-> pt.parameters[i].type.type_string]

get_string_of_parameters(pt) ==
  Join(<<",", " ">>,
       [i \in 1..Len(pt.parameters) |-> get_full_expression(pt.parameters[i])])

\* generate_args_struct without the test for a void return type.
generate_args_struct_alwaysret(pt) ==
  LET params == IF pt.parameters = <<>> THEN <<>> ELSE pt.parameters
  IN  << <<"typedef struct {\n">>, <<"\t// Parameters:\n">> >>
      \o [i \in 1..Len(params) |->
            <<"\t">> \o get_full_expression(params[i]) \o <<";\n">>]
      \o << <<"\t// Return value:\n">>,
            <<"\t">> \o pt.ret.type_string \o <<" ret;\n">> >>
      \o << <<"} __attribute__((packed)) ">> \o get_args_struct_name(pt)
              \o <<";\n\n">> >>

generate_args_struct(pt) ==
  LET params == IF pt.parameters = <<>> THEN <<>> ELSE pt.parameters
  IN  << <<"typedef struct {\n">>, <<"\t// Parameters:\n">> >>
      \o [i \in 1..Len(params) |->
            <<"\t">> \o get_full_expression(params[i]) \o <<";\n">>]
      \o (IF ~is_void(pt.ret)
            THEN << <<"\t// Return value:\n">>,
                    <<"\t">> \o pt.ret.type_string \o <<" ret;\n">> >>
            ELSE <<>>)
      \o << <<"} __attribute__((packed)) ">> \o get_args_struct_name(pt)
              \o <<";\n\n">> >>

generate_function_declaration(pt) ==
  << pt.ret.type_string \o <<" ">> \o pt.function_name \o <<"(">>
       \o get_string_of_parameters(pt) \o <<");\n">> >>

generate_uhyve_function_declaration(pt) ==
  << <<"void ">> \o get_uhyve_call_function_name(pt)
       \o <<"(struct kvm_run * run, uint8_t * guest_mem);\n">> >>

---------------------------------------------------------------------------
(* Module-level generator functions *)

generate_pretty_comment(string) ==
  << <<"/*\n * ">> \o string \o <<"\n */\n\n">> >>

generate_kernel_header_declarations(function_prototypes) ==
  Concat([i \in 1..Len(function_prototypes) |->
            generate_function_declaration(function_prototypes[i])])

generate_kernel_function(function_prototype) ==
  LET fnc_name == function_prototype.function_name
      ret_type == function_prototype.ret
      params == function_prototype.parameters
      port_name == get_port_name(function_prototype)
      comma_separated_params == get_string_of_parameters(function_prototype)
      ps == IF params = <<>> THEN <<>> ELSE params
  IN  << ret_type.type_string \o <<" ">> \o fnc_name \o <<"(">>
           \o comma_separated_params \o <<") {\n">>,
         <<"\t">> \o get_args_struct_name(function_prototype)
           \o <<" uhyve_args;\n">> >>
      \o [i \in 1..Len(ps) |->
            IF param_is_pointer_pointer(ps[i])
              THEN <<"\t// TODO: Take care of ** parameter.\n">>
              ELSE <<"\tuhyve_args.">> \o ps[i].name \o <<" = ">>
                     \o ps[i].name \o <<";\n">>]
      \o << <<"\n">>,
            <<"\tuhyve_send(">> \o port_name
              \o <<", (unsigned) virt_to_phys((size_t) &uhyve_args));\n">> >>
      \o (IF ~is_void(ret_type)
            THEN << <<"\n\treturn uhyve_args.ret;\n">> >>
            ELSE <<>>)
      \o << <<"}\n\n">> >>

generate_uhyve_cases(function_prototypes) ==
  << <<"\t\t\tcase UHYVE_PORT_SET_IB_POOL_ADDR: {\n">>,
     <<"\t\t\t\t\tunsigned data = *((unsigned*)((size_t)run+run->io.data_offset));\n">>,
     <<"\t\t\t\t\tuint64_t * temp = (uint64_t*)(guest_mem + data);\n">>,
     <<"\t\t\t\t\tib_pool_addr = (uint8_t*) *temp;\n">>,
     <<"\t\t\t\t\tib_pool_top = ib_pool_addr;\n">>,
     <<"\t\t\t\t\tbreak;\n">>,
     <<"\t\t\t}\n\n">> >>
  \o Concat([i \in 1..Len(function_prototypes) |->
       LET pt == function_prototypes[i]
           call_fnc_name == get_uhyve_call_function_name(pt)
           port_name == get_port_name(pt)
       IN  << <<"\t\t\tcase ">> \o port_name \o <<":\n">>,
              <<"\t\t\t\t">> \o call_fnc_name \o <<"(run, guest_mem);\n">>,
              <<"\t\t\t\tbreak;\n">> >>])

\* generate_uhyve_function passing the arguments in reverse order.
generate_uhyve_function_reversed(prototype) ==
  LET args_struct_name == get_args_struct_name(prototype)
      fnc_name == prototype.function_name
      ret_type == prototype.ret
      n == get_num_parameters(prototype)
      rev == [i \in 1..n |-> prototype.parameters[n + 1 - i]]
      init == Front(rev)
  IN  generate_pretty_comment(fnc_name)
      \o << <<"void call_">> \o fnc_name
              \o <<"(struct kvm_run * run, uint8_t * guest_mem) {\n">>,
            <<"\tprintf(\"LOG: UHYVE - call_">> \o fnc_name \o <<"\\n\");\n">>,
            <<"\tunsigned data = *((unsigned*) ((size_t) run + run->io.data_offset));\n">>,
            <<"\t">> \o args_struct_name \o <<" * args = (">>
              \o args_struct_name \o <<" *) (guest_mem + data);\n\n">>,
            <<"\tuse_ib_mem_pool = true;\n">>,
            <<"\t">> \o (IF ~is_void(ret_type) THEN <<"args->ret = ">> ELSE <<>>)
              \o fnc_name \o <<"(">> >>
      \o (IF n > 0
            THEN [i \in 1..Len(init) |-> <<"args->">> \o init[i].name \o <<", ">>]
                 \o << <<"args->">> \o Last(rev).name \o <<");\n">> >>
            ELSE <<>>)
      \o << <<"\tuse_ib_mem_pool = false;\n}\n\n\n">> >>

generate_uhyve_function(prototype) ==
  LET args_struct_name == get_args_struct_name(prototype)
      fnc_name == prototype.function_name
      ret_type == prototype.ret
      n == get_num_parameters(prototype)
      init == Front(prototype.parameters)
      rest == IF init = <<>> THEN <<>> ELSE init
  IN  generate_pretty_comment(fnc_name)
      \o << <<"void call_">> \o fnc_name
              \o <<"(struct kvm_run * run, uint8_t * guest_mem) {\n">>,
            <<"\tprintf(\"LOG: UHYVE - call_">> \o fnc_name \o <<"\\n\");\n">>,
            <<"\tunsigned data = *((unsigned*) ((size_t) run + run->io.data_offset));\n">>,
            <<"\t">> \o args_struct_name \o <<" * args = (">>
              \o args_struct_name \o <<" *) (guest_mem + data);\n\n">>,
            <<"\tuse_ib_mem_pool = true;\n">>,
            <<"\t">> \o (IF ~is_void(ret_type) THEN <<"args->ret = ">> ELSE <<>>)
              \o fnc_name \o <<"(">> >>
      \o (IF n > 0
            THEN [i \in 1..Len(rest) |-> <<"args->">> \o rest[i].name \o <<", ">>]
                 \o << <<"args->">> \o Last(prototype.parameters).name
                         \o <<");\n">> >>
            ELSE <<>>)
      \o << <<"\tuse_ib_mem_pool = false;\n}\n\n\n">> >>

generate_port_enum(function_prototypes) ==
  LET en == Enumerate(function_prototypes, PORT_NUMBER_START)
  IN  << <<"typedef enum {\n">>,
         <<"\tUHYVE_PORT_SET_IB_POOL_ADDR = 0x">>
           \o FormatX(PORT_NUMBER_START - 1) \o <<",\n">> >>
      \o [i \in 1..Len(en) |->
            <<"\t">> \o get_port_name(en[i][2]) \o <<" = 0x">>
              \o FormatX(en[i][1]) \o <<",\n">>]
      \o << <<"} uhyve_ibv_t;">> >>

\* generate_port_macros with enumerate() called without its start argument.
generate_port_macros_nostart(function_prototypes) ==
  LET en == Enumerate(function_prototypes, 0)
  IN  << <<"#define UHYVE_PORT_SET_IB_POOL_ADDR 0x">>
           \o FormatX(PORT_NUMBER_START - 1) \o <<"\n">> >>
      \o [i \in 1..Len(en) |->
            <<"#define ">> \o get_port_name(en[i][2]) \o <<" 0x">>
              \o FormatX(en[i][1]) \o <<"\n">>]

generate_port_macros(function_prototypes) ==
  LET en == Enumerate(function_prototypes, PORT_NUMBER_START)
  IN  << <<"#define UHYVE_PORT_SET_IB_POOL_ADDR 0x">>
           \o FormatX(PORT_NUMBER_START - 1) \o <<"\n">> >>
      \o [i \in 1..Len(en) |->
            <<"#define ">> \o get_port_name(en[i][2]) \o <<" 0x">>
              \o FormatX(en[i][1]) \o <<"\n">>]

---------------------------------------------------------------------------
(* Inputs *)

RetTypes == { <<"void">>, <<"int">>, <<"void", " ", "*">>,
              <<"struct", " ", "ibv_mr", " ", "*">> }

FuncNames == {"f1", "f2"}

Fragments == { <<"int", " ", "flags">>,
               <<"const", " ", "char", " ", "*", " ", "name">>,
               <<"struct", " ", "ibv_mr", " ", "*", " ", "mr">>,
               <<"struct", " ", "ibv_context", " ", "**", " ", "ctx">> }

Separators == { <<",", " ">>, <<",">> }

ParamRegions ==
  { <<>>, <<" ">> }
  \cup { Join(sep, fs) : sep \in Separators,
           fs \in UNION { [1..n -> Fragments] : n \in 1..MaxParams } }

BlankLine == <<"\n">>

ProtoLines ==
  { ret \o <<" ", name, "(">> \o region \o <<")">> \o eol :
      ret \in RetTypes, name \in FuncNames, region \in ParamRegions,
      eol \in { <<"\n">>, <<>> } }
  \cup { BlankLine }

InputLines ==
  { <<"int", " ", "f1", "(", "int", " ", "flags", ")", "\n">>,
    <<"void", " ", "f2", "(", "struct", " ", "ibv_mr", " ", "*", " ", "mr",
      ",", " ", "int", " ", "flags", ")", "\n">>,
    <<"int", " ", "f3", "(", ")", "\n">>,
    <<"int", " ", "ibv_rereg_mr", "(", "struct", " ", "ibv_mr", " ", "*", " ",
      "mr", ",", " ", "int", " ", "flags", ",", " ", "struct", " ", "ibv_pd",
      " ", "*", " ", "pd", ")", "\n">>,
    <<"void", " ", "f1", "(", "struct", " ", "ibv_context", " ", "**", " ",
      "ctx", ")", "\n">>,
    BlankLine }

\* The lines iteration over a text file yields: every line ends with its
\* newline, except that the last one lacks it when the file does not end
\* with one.
InputFiles ==
  LET full == UNION { [1..n -> InputLines] : n \in 0..MaxLines }
      chopped == { [f EXCEPT ![Len(f)] = Front(f[Len(f)])] :
                     f \in { g \in full : g # <<>> /\ Last(g) # BlankLine } }
  IN  full \cup chopped

NoOutput == [p \in Paths |-> <<>>]

NoGen == [args_struct |-> <<>>, kernel_function |-> <<>>,
          uhyve_function |-> <<>>]

---------------------------------------------------------------------------
(* The script: the block under `if __name__ == "__main__"` *)

Init ==
  /\ pc = "read"
  /\ src \in InputFiles
  /\ pos = 1
  /\ prototypes = <<>>
  /\ out = NoOutput
  /\ classified = <<>>
  /\ canon = <<>>
  /\ reparsed = <<>>
  /\ gen = NoGen

ReadLine ==
  /\ pc = "read"
  /\ pos <= Len(src)
  /\ LET line == src[pos]
     IN  prototypes' = IF Truthy(line)
                         THEN Append(prototypes, FunctionPrototype(line))
                         ELSE prototypes
  /\ pos' = pos + 1
  /\ UNCHANGED <<pc, src, out, classified, canon, reparsed, gen>>

CloseSrc ==
  /\ pc = "read"
  /\ pos > Len(src)
  /\ pc' = "cases"
  /\ UNCHANGED <<src, pos, prototypes, out, classified, canon, reparsed, gen>>

Write(path, strings, next) ==
  /\ out' = [out EXCEPT ![path] = strings]
  /\ pc' = next
  /\ UNCHANGED <<src, pos, prototypes, classified, canon, reparsed, gen>>

WriteUhyveCases ==
  /\ pc = "cases"
  /\ Write(UHYVE_CASES_GEN_PATH, <<generate_uhyve_cases(prototypes)>>, "macros")

WritePortMacros ==
  /\ pc = "macros"
  /\ Write(INCLUDE_STDDEF_GEN_PATH, <<generate_port_macros(prototypes)>>, "header")

WriteIbvHeader ==
  /\ pc = "header"
  /\ Write(UHYVE_IBV_HEADER_GEN_PATH,
           << generate_port_enum(prototypes), << <<"\n\n">> >> >>
           \o [i \in 1..Len(prototypes) |-> generate_args_struct(prototypes[i])]
           \o << << <<"\n\n">> >> >>
           \o [i \in 1..Len(prototypes) |->
                 generate_uhyve_function_declaration(prototypes[i])],
           "host")

WriteHostFcns ==
  /\ pc = "host"
  /\ Write(UHYVE_HOST_FCNS_GEN_PATH,
           [i \in 1..Len(prototypes) |-> generate_uhyve_function(prototypes[i])],
           "kheader")

WriteKernelHeader ==
  /\ pc = "kheader"
  /\ Write(KERNEL_HEADER_GEN_PATH,
           <<generate_kernel_header_declarations(prototypes)>>, "kernel")

KernelWrites(pt) ==
  << generate_pretty_comment(pt.function_name), generate_args_struct(pt),
     generate_kernel_function(pt), << <<"\n">> >> >>

WriteKernel ==
  /\ pc = "kernel"
  /\ Write(KERNEL_GEN_PATH,
           Concat([i \in 1..Len(prototypes) |-> KernelWrites(prototypes[i])]),
           "done")

Next ==
  \/ ReadLine
  \/ CloseSrc
  \/ WriteUhyveCases
  \/ WritePortMacros
  \/ WriteIbvHeader
  \/ WriteHostFcns
  \/ WriteKernelHeader
  \/ WriteKernel

Spec == Init /\ [][Next]_vars

---------------------------------------------------------------------------
(* The classes and per-prototype emitters applied to one prototype line *)

InitProto ==
  /\ pc = "line"
  /\ src \in { <<l>> : l \in ProtoLines }
  /\ pos = 1
  /\ prototypes = <<>>
  /\ out = NoOutput
  /\ classified = <<>>
  /\ canon = <<>>
  /\ reparsed = <<>>
  /\ gen = NoGen

Accessors(t) ==
  [is_struct |-> is_struct(t), is_pointer |-> is_pointer(t),
   is_pointer_pointer |-> is_pointer_pointer(t), is_void |-> is_void(t),
   is_char_arr |-> is_char_arr(t), get_struct_name |-> get_struct_name(t)]

Parse ==
  /\ pc = "line"
  /\ prototypes' = <<FunctionPrototype(src[1])>>
  /\ pc' = "parsed"
  /\ UNCHANGED <<src, pos, out, classified, canon, reparsed, gen>>

Classify ==
  /\ pc = "parsed"
  /\ LET pt == prototypes[1]
     IN  classified' =
           [ret |-> Accessors(pt.ret),
            parameters |-> [i \in 1..get_num_parameters(pt) |->
                              Accessors(pt.parameters[i].type)]]
  /\ pc' = "classified"
  /\ UNCHANGED <<src, pos, prototypes, out, canon, reparsed, gen>>

Canonical ==
  /\ pc = "classified"
  /\ canon' = get_string_of_parameters(prototypes[1])
  /\ pc' = "canonical"
  /\ UNCHANGED <<src, pos, prototypes, out, classified, reparsed, gen>>

Reparse ==
  /\ pc = "canonical"
  /\ LET pt == prototypes[1]
         decl == pt.ret.type_string \o <<" ">> \o pt.function_name
                   \o <<"(">> \o canon \o <<")">>
     IN  reparsed' = FunctionPrototype(decl).parameters
  /\ pc' = "reparsed"
  /\ UNCHANGED <<src, pos, prototypes, out, classified, canon, gen>>

EmitArgsStruct ==
  /\ pc = "reparsed"
  /\ gen' = [gen EXCEPT !.args_struct = generate_args_struct(prototypes[1])]
  /\ pc' = "struct"
  /\ UNCHANGED <<src, pos, prototypes, out, classified, canon, reparsed>>

EmitKernelFunction ==
  /\ pc = "struct"
  /\ gen' = [gen EXCEPT !.kernel_function = generate_kernel_function(prototypes[1])]
  /\ pc' = "stub"
  /\ UNCHANGED <<src, pos, prototypes, out, classified, canon, reparsed>>

EmitUhyveFunction ==
  /\ pc = "stub"
  /\ gen' = [gen EXCEPT !.uhyve_function = generate_uhyve_function(prototypes[1])]
  /\ pc' = "emitted"
  /\ UNCHANGED <<src, pos, prototypes, out, classified, canon, reparsed>>

NextProto ==
  \/ Parse
  \/ Classify
  \/ Canonical
  \/ Reparse
  \/ EmitArgsStruct
  \/ EmitKernelFunction
  \/ EmitUhyveFunction

SpecProto == InitProto /\ [][NextProto]_vars

---------------------------------------------------------------------------
(* Reading the generated port table back *)

Count(S) == Cardinality(S)

IndexOf(t, lexeme) == CHOOSE k \in 1..Len(t) : t[k] = lexeme

HexDigitVal(d) == (CHOOSE k \in 1..16 : HexDigits[k] = d) - 1

RECURSIVE HexVal(_)
HexVal(ds) ==
  IF ds = <<>> THEN 0 ELSE 16 * HexVal(Front(ds)) + HexDigitVal(Last(ds))

EnumTable == out[UHYVE_IBV_HEADER_GEN_PATH][1]

MacroTable == out[INCLUDE_STDDEF_GEN_PATH][1]

\* Entry i (1-based) of the enum that belongs to a prototype: chunk i + 2.
EnumName(i) ==
  LET c == EnumTable[i + 2] IN Str(SubSeq(c, 2, IndexOf(c, " = 0x") - 1))

EnumCode(i) ==
  LET c == EnumTable[i + 2]
  IN  HexVal(SubSeq(c, IndexOf(c, " = 0x") + 1, Len(c) - 1))

EnumReserved ==
  LET c == EnumTable[2]
  IN  IF Head(c) = "\tUHYVE_PORT_SET_IB_POOL_ADDR = 0x"
        THEN HexVal(SubSeq(c, 2, Len(c) - 1)) ELSE -1

MacroName(i) ==
  LET c == MacroTable[i + 1] IN Str(SubSeq(c, 2, IndexOf(c, " 0x") - 1))

MacroCode(i) ==
  LET c == MacroTable[i + 1]
  IN  HexVal(SubSeq(c, IndexOf(c, " 0x") + 1, Len(c) - 1))

MacroReserved ==
  LET c == MacroTable[1]
  IN  IF Head(c) = "#define UHYVE_PORT_SET_IB_POOL_ADDR 0x"
        THEN HexVal(SubSeq(c, 2, Len(c) - 1)) ELSE -1

PortName(pt) == "UHYVE_PORT_" \o Str(Upper(pt.function_name))

\* C1: both the enum and the macro list give the i-th prototype (0-indexed,
\* input order) the code PORT_NUMBER_START + i and the reserved port
\* UHYVE_PORT_SET_IB_POOL_ADDR the code PORT_NUMBER_START - 1; the codes are
\* strictly ascending, so no two entries share a code.
C1_PortCodesDense ==
  pc = "done" =>
    LET n == Len(prototypes)
    IN  /\ Len(EnumTable) = n + 3
        /\ Len(MacroTable) = n + 1
        /\ EnumReserved = PORT_NUMBER_START - 1
        /\ MacroReserved = PORT_NUMBER_START - 1
        /\ \A i \in 1..n :
             /\ EnumName(i) = PortName(prototypes[i])
             /\ MacroName(i) = PortName(prototypes[i])
             /\ EnumCode(i) = PORT_NUMBER_START + (i - 1)
             /\ MacroCode(i) = PORT_NUMBER_START + (i - 1)
        /\ \A i \in 1..n : EnumReserved < EnumCode(i) /\ MacroReserved < MacroCode(i)
        /\ \A i, j \in 1..n :
             i < j => EnumCode(i) < EnumCode(j) /\ MacroCode(i) < MacroCode(j)

C1_Witness ==
  /\ pc = "done"
  /\ Len(prototypes) = 3
  /\ [i \in 1..3 |-> Str(prototypes[i].function_name)] = <<"f1", "f2", "f3">>
  /\ <<EnumReserved, EnumCode(1), EnumCode(2), EnumCode(3)>> = <<1551, 1552, 1553, 1554>>
  /\ <<MacroReserved, MacroCode(1), MacroCode(2), MacroCode(3)>> = <<1551, 1552, 1553, 1554>>

\* The port name a dispatch case refers to: generate_uhyve_cases emits seven
\* chunks for the control case, then three per prototype.
CaseName(i) ==
  LET c == out[UHYVE_CASES_GEN_PATH][1][7 + 3 * (i - 1) + 1]
  IN  Str(SubSeq(c, 2, Len(c) - 1))

\* The port name the guest stub of prototype i passes to uhyve_send.
StubSendName(i) ==
  LET code == out[KERNEL_GEN_PATH][4 * (i - 1) + 3]
      c == code[CHOOSE k \in 1..Len(code) : Head(code[k]) = "\tuhyve_send("]
  IN  Str(SubSeq(c, 2, Len(c) - 1))

\* C2: the port assignment is a bijection from function name to code: every
\* port name referenced by a guest stub's uhyve_send and by a dispatch case
\* is defined exactly once in the enum and in the macros, and so has one code.
C2_PortBijection ==
  pc = "done" =>
    LET n == Len(prototypes)
    IN  \A i \in 1..n :
          /\ CaseName(i) = StubSendName(i)
          /\ Count({j \in 1..n : EnumName(j) = CaseName(i)}) = 1
          /\ Count({j \in 1..n : MacroName(j) = StubSendName(i)}) = 1
          /\ \A j \in 1..n :
               (prototypes[i].function_name = prototypes[j].function_name)
                 <=> (EnumCode(i) = EnumCode(j))

IsBlank(line) == \A k \in 1..Len(line) : line[k] \in {" ", "\n", "\t"}

\* C6: blank lines of the input are skipped: after reading, `prototypes`
\* holds exactly one Prototype per non-blank line, in input order.
C6_BlankLinesSkipped ==
  pc # "read" =>
    LET nonblank == SelectSeq(src, LAMBDA l : ~IsBlank(l))
    IN  /\ Len(prototypes) = Len(nonblank)
        /\ \A i \in 1..Len(nonblank) :
             prototypes[i] = FunctionPrototype(nonblank[i])

---------------------------------------------------------------------------
(* The prototype line as written, read without the parser *)

Line == src[1]

HasParens(l) == \E k \in 1..Len(l) : l[k] = "("

\* The lexemes between "(" and the ")" that follows it.
RawRegion(l) ==
  LET a == CHOOSE k \in 1..Len(l) : l[k] = "("
      b == CHOOSE k \in (a + 1)..Len(l) :
             l[k] = ")" /\ \A j \in (a + 1)..(k - 1) : l[j] # ")"
  IN  SubSeq(l, a + 1, b - 1)

\* The lexemes before "(".
RawLeft(l) == SubSeq(l, 1, (CHOOSE k \in 1..Len(l) : l[k] = "(") - 1)

CommasBefore(r, k) == Count({j \in 1..(k - 1) : r[j] = ","})

NumFragments(r) == CommasBefore(r, Len(r) + 1) + 1

\* The i-th comma-separated fragment: the lexemes with i - 1 commas before them.
RawFragment(r, i) ==
  LET idx == {k \in 1..Len(r) : r[k] # "," /\ CommasBefore(r, k) = i - 1}
  IN  IF idx = {} THEN <<>>
      ELSE SubSeq(r, CHOOSE k \in idx : \A j \in idx : k <= j,
                     CHOOSE k \in idx : \A j \in idx : j <= k)

HasSpace(t) == \E k \in 1..Len(t) : t[k] = " "

\* The words of a text, in order: its lexemes other than spaces.
Words(t) == SelectSeq(t, LAMBDA x : x # " ")

\* The type of a fragment as written: its words but the last (the name).
WrittenType(t) == LET w == Words(t) IN IF w = <<>> THEN <<>> ELSE Front(w)

\* The documented input form: every comma is followed by one space.
DocumentedForm(l) ==
  /\ HasParens(l)
  /\ LET r == RawRegion(l)
     IN  \A k \in 1..Len(r) : r[k] = "," => (k < Len(r) /\ r[k + 1] = " ")

\* C3: a prototype line that declares no parameters (nothing or only
\* whitespace between the parentheses) is parsed into a Prototype whose
\* parameter list is empty.
C3_EmptyParameterList ==
  (pc # "line" /\ HasParens(Line)
     /\ \A k \in 1..Len(RawRegion(Line)) : RawRegion(Line)[k] = " ")
    => get_num_parameters(prototypes[1]) = 0

\* C4: for a prototype in the documented form, parsing the canonical
\* parameter expression again yields parameters with the same type strings
\* and names, in the same order, and so the same canonical string.
C4_RoundTrip ==
  (pc \in {"reparsed", "struct", "stub", "emitted"} /\ DocumentedForm(Line))
    => LET ps == prototypes[1].parameters
       IN  /\ Len(reparsed) = Len(ps)
           /\ \A i \in 1..Len(ps) :
                /\ reparsed[i].type.type_string = ps[i].type.type_string
                /\ reparsed[i].name = ps[i].name
           /\ Join(<<",", " ">>,
                   [i \in 1..Len(reparsed) |-> get_full_expression(reparsed[i])])
                = canon

TypeAsClaimed(c, written) ==
  /\ c.is_struct <=> (written # <<>> /\ written[1] = "struct")
  /\ (written # <<>> /\ written[1] = "struct" /\ Len(written) >= 2)
       => c.get_struct_name = Return(<<written[2]>>)
  /\ c.is_pointer <=> (written # <<>> /\ Last(written) = "*")
  /\ c.is_pointer_pointer <=> (written # <<>> /\ Last(written) = "**")

\* C5: for the return type and every parameter, at any position, the Type
\* accessors report struct iff the type as written starts with the token
\* struct, and then get_struct_name is the token after it; pointer iff the
\* last type token is *, pointer-pointer iff it is **.
C5_TypeClassifier ==
  (pc \notin {"line", "parsed"} /\ HasParens(Line))
    => LET r == RawRegion(Line)
       IN  /\ TypeAsClaimed(classified.ret, WrittenType(RawLeft(Line)))
           /\ Len(classified.parameters) = NumFragments(r)
           /\ \A i \in 1..Len(classified.parameters) :
                TypeAsClaimed(classified.parameters[i],
                              WrittenType(RawFragment(r, i)))

\* C8: the number of Parameters equals the number of comma-separated
\* fragments of the parameter list; the i-th Parameter comes from the i-th
\* fragment; its name is the fragment's last space-separated token and its
\* type string is the tokens before it rejoined with single spaces.
C8_ParametersFromFragments ==
  (pc # "line" /\ HasParens(Line))
    => LET r == RawRegion(Line)
           ps == prototypes[1].parameters
       IN  /\ Len(ps) = NumFragments(r)
           /\ \A i \in 1..Len(ps) :
                LET frag == RawFragment(r, i)
                    p == ps[i]
                IN  /\ ~HasSpace(p.name)
                    /\ IF HasSpace(frag)
                         THEN frag = p.type.type_string \o <<" ">> \o p.name
                         ELSE p.type.type_string = <<>> /\ p.name = frag
                    /\ \A k \in 1..Len(p.type.type_components) :
                         ~HasSpace(p.type.type_components[k])
                    /\ Join(<<" ">>, p.type.type_components) = p.type.type_string

C8_Witness ==
  /\ pc = "parsed"
  /\ HasParens(Line)
  /\ NumFragments(RawRegion(Line)) = 3
  /\ Len(prototypes[1].parameters) = 3
  /\ prototypes[1].parameters[1].name = <<"mr">>
  /\ prototypes[1].parameters[1].type.type_string
       = <<"struct", " ", "ibv_mr", " ", "*">>
  /\ prototypes[1].parameters[3].name = <<"ctx">>

---------------------------------------------------------------------------
(* The per-prototype emitters *)

Emitted == pc = "emitted"

ArgsStructName(pt) == "uhyve_" \o Str(pt.function_name) \o "_t"

ReturnsVoid(pt) == Str(pt.ret.type_string) = "void"

\* C7: the record type lists one field per parameter, in the order of
\* `parameters`, followed by a `ret` field of the return type iff the
\* return type is not void; its type name is uhyve_<functionName>_t, the
\* value of get_args_struct_name(), which is also the type of the guest
\* stub's local variable and of the host-dispatch cast.
C7_ArgsStruct ==
  Emitted =>
    LET pt == prototypes[1]
        s == gen.args_struct
        n == Len(pt.parameters)
        name == ArgsStructName(pt)
    IN  /\ Len(s) = n + 3 + (IF ReturnsVoid(pt) THEN 0 ELSE 2)
        /\ \A i \in 1..n :
             Str(s[2 + i]) = "\t" \o Str(pt.parameters[i].type.type_string)
                               \o " " \o Str(pt.parameters[i].name) \o ";\n"
        /\ ~ReturnsVoid(pt) =>
             Str(s[n + 4]) = "\t" \o Str(pt.ret.type_string) \o " ret;\n"
        /\ ReturnsVoid(pt) => \A k \in 1..Len(s) : Last(s[k]) # " ret;\n"
        /\ Str(get_args_struct_name(pt)) = name
        /\ Str(Last(s)) = "} __attribute__((packed)) " \o name \o ";\n\n"
        /\ Str(gen.kernel_function[2]) = "\t" \o name \o " uhyve_args;\n"
        /\ Str(gen.uhyve_function[5])
             = "\t" \o name \o " * args = (" \o name \o " *) (guest_mem + data);\n\n"

C7_Witness ==
  /\ Emitted
  /\ Len(prototypes[1].parameters) = 2
  /\ ReturnsVoid(prototypes[1])
  /\ Len(gen.args_struct) = 5
  /\ Str(Last(gen.args_struct)) = "} __attribute__((packed)) uhyve_f1_t;\n\n"

====
